---- MODULE Spec2Model ----
(***************************************************************************)
(* Model of wog_bot.py: one run of main(), from the credential check to    *)
(* the threshold comparison and the Telegram alert.                        *)
(*                                                                         *)
(* Text is a sequence of one-character strings, so that strip, lower,      *)
(* split, join and the substring test `x in s` are computed as Python      *)
(* computes them.  A Cyrillic letter is written as the atom "cyr_<latin>"  *)
(* (for example "cyr_p" is the letter pe); an atom is one character and    *)
(* never equals a Latin letter.  Decimal values are integers.              *)
(***************************************************************************)
EXTENDS Integers, Sequences, FiniteSets, TLC

\* ------------------------------------------------------------------ bounds
MaxWallets == 2
MaxTx == 2

\* -------------------------------------------------------------------- text
UpperLetters == <<"A","B","C","D","E","F","G","H","I","J","K","L","M",
                  "N","O","P","Q","R","S","T","U","V","W","X","Y","Z">>
LowerLetters == <<"a","b","c","d","e","f","g","h","i","j","k","l","m",
                  "n","o","p","q","r","s","t","u","v","w","x","y","z">>

IsSpace(c) == c \in {" ", "\t", "\n"}

LowerChar(c) ==
    IF \E i \in 1..Len(UpperLetters) : UpperLetters[i] = c
    THEN LowerLetters[CHOOSE i \in 1..Len(UpperLetters) : UpperLetters[i] = c]
    ELSE c

UpperChar(c) ==
    IF \E i \in 1..Len(LowerLetters) : LowerLetters[i] = c
    THEN UpperLetters[CHOOSE i \in 1..Len(LowerLetters) : LowerLetters[i] = c]
    ELSE c

\* str.lower() and str.upper()
lower(s) == [i \in 1..Len(s) |-> LowerChar(s[i])]
upper(s) == [i \in 1..Len(s) |-> UpperChar(s[i])]

\* str.strip(): drop leading and trailing whitespace
RECURSIVE lstrip(_)
lstrip(s) == IF s # <<>> /\ IsSpace(Head(s)) THEN lstrip(Tail(s)) ELSE s

RECURSIVE rstrip(_)
rstrip(s) ==
    IF s # <<>> /\ IsSpace(s[Len(s)]) THEN rstrip(SubSeq(s, 1, Len(s) - 1)) ELSE s

strip(s) == rstrip(lstrip(s))

\* str.split() with no argument: the maximal runs of non-whitespace
RECURSIVE SplitFrom(_, _, _)
SplitFrom(s, cur, acc) ==
    IF s = <<>>
    THEN IF cur = <<>> THEN acc ELSE Append(acc, cur)
    ELSE IF IsSpace(Head(s))
         THEN SplitFrom(Tail(s), <<>>, IF cur = <<>> THEN acc ELSE Append(acc, cur))
         ELSE SplitFrom(Tail(s), Append(cur, Head(s)), acc)

split(s) == SplitFrom(s, <<>>, <<>>)

\* " ".join(words)
RECURSIVE join(_)
join(words) ==
    IF words = <<>> THEN <<>>
    ELSE IF Len(words) = 1 THEN words[1]
    ELSE words[1] \o <<" ">> \o join(Tail(words))

\* needle in hay
Contains(hay, needle) ==
    \E i \in 0..(Len(hay) - Len(needle)) :
        \A j \in 1..Len(needle) : hay[i + j] = needle[j]

\* A JSON value read with dict.get: the key is missing, or it holds null, a
\* string or a number.
Missing == [k |-> "missing", s |-> <<>>, v |-> 0]
Null == [k |-> "null", s |-> <<>>, v |-> 0]
Str(s) == [k |-> "str", s |-> s, v |-> 0]
Num(n) == [k |-> "num", s |-> <<>>, v |-> n]

DigitChars == <<"0","1","2","3","4","5","6","7","8","9">>

\* str(n) of an integer
RECURSIVE NatText(_)
NatText(n) ==
    IF n < 10 THEN <<DigitChars[n + 1]>>
    ELSE NatText(n \div 10) \o <<DigitChars[(n % 10) + 1]>>

NumText(n) == IF n < 0 THEN <<"-">> \o NatText(-n) ELSE NatText(n)

\* str(d.get(key, "")): a missing key reads "", null reads "None"
StrOf(x) ==
    CASE x.k = "missing" -> <<>>
      [] x.k = "null" -> <<"N","o","n","e">>
      [] x.k = "str" -> x.s
      [] OTHER -> NumText(x.v)

\* str(d.get(key, "") or ""): missing, null, "" and 0 all read ""
StrOrEmpty(x) ==
    CASE x.k = "str" -> x.s
      [] x.k = "num" /\ x.v # 0 -> NumText(x.v)
      [] OTHER -> <<>>

\* norm(s), applied to str(s or "")
norm(s) == join(split(lower(strip(s))))

\* parse_decimal: a number, or text that parses as one, is Num(n); None and
\* text that does not parse (every Str of the pools) yield 0
parse_decimal(x) == IF x.k = "num" THEN x.v ELSE 0

\* ----------------------------------------------------------- configuration
\* The environment the process starts with.  A credential is TRUE when the
\* variable is set to a non-empty string.  WOG_WALLET_CODE is <<>> when
\* neither WOG_WALLET_CODE nor WOG_WALLET_ID is set.
VARIABLES WOG_API_KEY, TELEGRAM_BOT_TOKEN, TELEGRAM_CHAT_ID,
          WOG_WALLET_CODE, WOG_BALANCE_MODE

BALANCE_THRESHOLD == 10

WOG_CREDIT_KEYWORDS ==
    << <<"cyr_p","cyr_o","cyr_p","cyr_o","cyr_v">>,
       <<"cyr_z","cyr_a","cyr_r","cyr_a","cyr_kh">>,
       <<"cyr_v","cyr_o","cyr_z","cyr_v","cyr_r","cyr_a","cyr_t">>,
       <<"cyr_p","cyr_o","cyr_v","cyr_e","cyr_r","cyr_n","cyr_e","cyr_n">>,
       <<"cyr_k","cyr_o","cyr_r","cyr_i","cyr_g","cyr_u","cyr_v">> >>

WalletCodes == { <<>>, <<"A"," ">>, <<"C">> }
BalanceModes == {"OPENING", "OPENING_PLUS_TX"}

\* ------------------------------------------------------------------ wallets
Wallet(code, name, goods, gcode, ccode, value) ==
    [WalletCode |-> code, WalletName |-> name, GoodsName |-> goods,
     GoodsCode |-> gcode, CurrencyCode |-> ccode, Value |-> value]

NoWallet == Wallet(Missing, Missing, Missing, Missing, Missing, Missing)

WalletPool ==
    << Wallet(Str(<<"A">>), Str(<<"M","a","i","n">>), Str(<<"U","A","H">>),
              Missing, Missing, Num(9)),
       Wallet(Str(<<" ","A">>), Str(<<"m","a","i","n"," ">>), Missing,
              Missing, Str(<<"u","a","h"," ">>), Num(12)),
       Wallet(Str(<<"B">>), Missing, Str(<<"cyr_g","cyr_r","cyr_n">>),
              Num(980), Missing, Num(10)),
       Wallet(Str(<<"C">>), Str(<<"F","u","e","l">>), Str(<<"L">>),
              Num(95), Str(<<"L","T","R">>), Num(3)) >>

SeqsUpTo(S, n) == UNION { [1..m -> S] : m \in 0..n }

RemainsLists == SeqsUpTo({ WalletPool[j] : j \in 1..Len(WalletPool) }, MaxWallets)

IsUah(w) ==
    LET goods_name == norm(StrOrEmpty(w.GoodsName))
        goods_code == strip(StrOf(w.GoodsCode))
        currency_code == upper(strip(StrOf(w.CurrencyCode)))
    IN  \/ goods_name \in { <<"cyr_g","cyr_r","cyr_n">>, <<"u","a","h">> }
        \/ goods_code = <<"9","8","0">>
        \/ currency_code \in { <<"U","A","H">>, <<"9","8","0">> }

pick_uah_wallets(remains) == SelectSeq(remains, IsUah)

\* select_wallet: ok = FALSE stands for the RuntimeError it raises
CodeMatches(w) == strip(StrOf(w.WalletCode)) = strip(WOG_WALLET_CODE)

\* select_wallet taking the first wallet where it has to refuse
select_wallet_first(uah_wallets) ==
    IF WOG_WALLET_CODE # <<>>
    THEN LET selected == SelectSeq(uah_wallets, CodeMatches)
         IN  IF selected = <<>>
             THEN [ok |-> FALSE, wallet |-> NoWallet]
             ELSE [ok |-> TRUE, wallet |-> selected[1]]
    ELSE IF uah_wallets = <<>>
         THEN [ok |-> FALSE, wallet |-> NoWallet]
         ELSE [ok |-> TRUE, wallet |-> uah_wallets[1]]

select_wallet(uah_wallets) ==
    IF WOG_WALLET_CODE # <<>>
    THEN LET selected == SelectSeq(uah_wallets, CodeMatches)
         IN  IF selected = <<>>
             THEN [ok |-> FALSE, wallet |-> NoWallet]
             ELSE [ok |-> TRUE, wallet |-> selected[1]]
    ELSE IF Len(uah_wallets) # 1
         THEN [ok |-> FALSE, wallet |-> NoWallet]
         ELSE [ok |-> TRUE, wallet |-> uah_wallets[1]]

\* ------------------------------------------------------------- transactions
Tx(walletname, summwithdiscount, sum, Direction, Type, goodsName, cardinfo) ==
    [walletname |-> walletname, summwithdiscount |-> summwithdiscount,
     sum |-> sum, Direction |-> Direction, direction |-> Missing,
     OperationType |-> Missing, operationType |-> Missing, Type |-> Type,
     type |-> Missing, goodsName |-> goodsName, cardinfo |-> cardinfo]

TxPool ==
    << \* final amount 2, Direction "Credit"
       Tx(Str(<<"M","A","I","N">>), Num(2), Num(7), Str(<<"C","r","e","d","i","t">>),
          Missing, Missing, Missing),
       \* no final amount, raw amount 1, Type "outgoing"
       Tx(Str(<<"m","a","i","n">>), Missing, Num(1), Missing,
          Str(<<"o","u","t","g","o","i","n","g">>), Missing, Missing),
       \* another wallet's purchase of 5, no hint
       Tx(Str(<<"o","t","h","e","r">>), Num(5), Num(5), Missing, Missing,
          Str(<<"A","9","5">>), Missing),
       \* final amount not ready (-1), raw amount 0, no wallet name
       Tx(Missing, Num(-1), Num(0), Missing, Missing, Missing, Missing),
       \* final amount not ready (-1), no raw amount
       Tx(Str(<<"m","a","i","n">>), Num(-1), Missing, Str(<<"d","e","b","i","t">>),
          Missing, Missing, Missing),
       \* final amount 4, Direction " DEBIT "
       Tx(Str(<<"m","a","i","n">>), Num(4), Num(4), Str(<<" ","D","E","B","I","T"," ">>),
          Missing, Missing, Missing),
       \* final amount 3, no hint, card info holding a credit keyword
       Tx(Str(<<"m","a","i","n">>), Num(3), Missing, Missing, Missing, Missing,
          Str(<<"cyr_p","cyr_o","cyr_p","cyr_o","cyr_v","cyr_n">>)) >>

TxLists == SeqsUpTo({ TxPool[j] : j \in 1..Len(TxPool) }, MaxTx)

CreditTokens ==
    { <<"c","r","e","d","i","t">>, <<"i","n">>, <<"i","n","c","o","m","i","n","g">>,
      <<"p","l","u","s">>,
      <<"cyr_p","cyr_o","cyr_p","cyr_o","cyr_v">>,
      <<"cyr_z","cyr_a","cyr_r","cyr_a","cyr_kh">>,
      <<"cyr_v","cyr_o","cyr_z","cyr_v","cyr_r","cyr_a","cyr_t">>,
      <<"cyr_p","cyr_o","cyr_v","cyr_e","cyr_r","cyr_n","cyr_e","cyr_n">> }

DebitTokens ==
    { <<"d","e","b","i","t">>, <<"o","u","t">>, <<"o","u","t","g","o","i","n","g">>,
      <<"m","i","n","u","s">>,
      <<"cyr_s","cyr_p","cyr_i","cyr_s">>,
      <<"cyr_p","cyr_o","cyr_k","cyr_u","cyr_p">>,
      <<"cyr_o","cyr_p","cyr_l","cyr_a","cyr_t">> }

Abs(n) == IF n < 0 THEN -n ELSE n

\* tx.get("sum", 0)
RawSum(tx) == parse_decimal(tx.sum)

\* lines 135-137: the amount the classifier works with
ResolvedAmount(tx) ==
    LET amount == IF tx.summwithdiscount.k = "missing"
                  THEN RawSum(tx)
                  ELSE parse_decimal(tx.summwithdiscount)
    IN  IF amount = -1 THEN RawSum(tx) ELSE amount

\* line 145: the six direction fields joined by spaces, normalized
DirectionValue(tx) ==
    norm(join(<< StrOf(tx.Direction), StrOf(tx.direction), StrOf(tx.OperationType),
                 StrOf(tx.operationType), StrOf(tx.Type), StrOf(tx.type) >>))

\* lines 151-155
FreeText(tx) ==
    norm(StrOf(tx.goodsName) \o <<" ">> \o StrOf(tx.walletname) \o <<" ">>
         \o StrOf(tx.cardinfo) )

HasCreditToken(direction_value) == \E x \in CreditTokens : Contains(direction_value, x)
HasDebitToken(direction_value) == \E x \in DebitTokens : Contains(direction_value, x)

transaction_signed_amount(tx) ==
    LET amount == ResolvedAmount(tx)
    IN  IF amount = 0 THEN 0
        ELSE IF amount < 0 THEN amount
        ELSE IF HasCreditToken(DirectionValue(tx)) THEN Abs(amount)
        ELSE IF HasDebitToken(DirectionValue(tx)) THEN -Abs(amount)
        ELSE IF \E j \in 1..Len(WOG_CREDIT_KEYWORDS) :
                    Contains(FreeText(tx), WOG_CREDIT_KEYWORDS[j])
             THEN Abs(amount)
        ELSE -Abs(amount)

\* line 169 without its two blank-name tests
TxSkippedOnAnyDifference(wallet_name_n, tx_wallet_name) ==
    tx_wallet_name # wallet_name_n

\* line 169: the record is skipped
TxSkipped(wallet_name_n, tx_wallet_name) ==
    wallet_name_n # <<>> /\ tx_wallet_name # <<>> /\ tx_wallet_name # wallet_name_n

\* --------------------------------------------------------------- main()
\* pc: where main() is.  calls: the HTTP requests issued so far, in order.
\* log: the records logged at warning or error level, and the final info
\* record.  i, delta, used, signed: calc_today_delta's loop (i records done,
\* signed the value transaction_signed_amount returned last).
VARIABLES pc, calls, log, remains, uah_wallets, wallet, opening_balance,
          balance_for_alert, tx_delta, tx_used, method, transactions,
          i, delta, used, signed

config == <<WOG_API_KEY, TELEGRAM_BOT_TOKEN, TELEGRAM_CHAT_ID, WOG_WALLET_CODE,
            WOG_BALANCE_MODE>>
locals == <<remains, uah_wallets, wallet, opening_balance, balance_for_alert,
            tx_delta, tx_used, method>>
loop == <<transactions, i, delta, used, signed>>
vars == <<pc, calls, log, config, locals, loop>>

\* wog_post raises: requests.post fails, raise_for_status, r.json(), status # "0"
FailKinds == {"network", "http", "json", "status"}

\* the except clause of main() that catches the failure
ErrorLog(err) ==
    CASE err \in {"network", "http"} -> "network_error"
      [] err = "json" -> "json_error"
      [] OTHER -> "unexpected_error"

\* line 178 with any() for all()
ConfigOkAny == WOG_API_KEY \/ TELEGRAM_BOT_TOKEN \/ TELEGRAM_CHAT_ID

\* line 178
ConfigOk == WOG_API_KEY /\ TELEGRAM_BOT_TOKEN /\ TELEGRAM_CHAT_ID

\* line 212 with the mode test dropped
WantsTransactionsAlways == TRUE

\* line 212
WantsTransactions == WOG_BALANCE_MODE = "OPENING_PLUS_TX"

\* line 239 with <= for <
AlertFiresOnEqual(balance) == balance <= BALANCE_THRESHOLD

\* line 239
AlertFires(balance) == balance < BALANCE_THRESHOLD

Init ==
    /\ WOG_API_KEY \in BOOLEAN
    /\ TELEGRAM_BOT_TOKEN \in BOOLEAN
    /\ TELEGRAM_CHAT_ID \in BOOLEAN
    /\ WOG_WALLET_CODE \in WalletCodes
    /\ WOG_BALANCE_MODE \in BalanceModes
    /\ pc = "start"
    /\ calls = <<>>
    /\ log = <<>>
    /\ remains = <<>>
    /\ uah_wallets = <<>>
    /\ wallet = NoWallet
    /\ opening_balance = 0
    /\ balance_for_alert = 0
    /\ tx_delta = 0
    /\ tx_used = 0
    /\ method = ""
    /\ transactions = <<>>
    /\ i = 0
    /\ delta = 0
    /\ used = 0
    /\ signed = 0

\* lines 178-180: a credential is missing
MainConfigError ==
    /\ pc = "start"
    /\ ~ConfigOk
    /\ log' = Append(log, "config_error")
    /\ pc' = "done"
    /\ UNCHANGED <<calls, config, locals, loop>>

\* lines 182-192: the WalletsRemains request goes out
MainSnapshotRequest ==
    /\ pc = "start"
    /\ ConfigOk
    /\ calls' = Append(calls, "WalletsRemains")
    /\ pc' = "await_remains"
    /\ UNCHANGED <<log, config, locals, loop>>

\* line 192 raises; lines 260-265
WalletsRemainsFail(err) ==
    /\ pc = "await_remains"
    /\ log' = Append(log, ErrorLog(err))
    /\ pc' = "done"
    /\ UNCHANGED <<calls, config, locals, loop>>

\* lines 193-225: the snapshot arrived with status "0".  rem = <<>> stands
\* for an empty remains and for one that is no list.
WalletsRemainsOk(rem) ==
    /\ pc = "await_remains"
    /\ remains' = rem
    /\ LET uah == pick_uah_wallets(rem)
           sel == select_wallet(uah)
       IN  IF rem = <<>>
           THEN /\ log' = Append(log, "unexpected_error")
                /\ pc' = "done"
                /\ UNCHANGED <<calls, uah_wallets, wallet, opening_balance,
                               balance_for_alert, tx_delta, tx_used, method>>
           ELSE IF uah = <<>> \/ ~sel.ok
           THEN /\ uah_wallets' = uah
                /\ log' = Append(log, "unexpected_error")
                /\ pc' = "done"
                /\ UNCHANGED <<calls, wallet, opening_balance,
                               balance_for_alert, tx_delta, tx_used, method>>
           ELSE /\ uah_wallets' = uah
                /\ wallet' = sel.wallet
                /\ opening_balance' = parse_decimal(sel.wallet.Value)
                /\ balance_for_alert' = parse_decimal(sel.wallet.Value)
                /\ tx_delta' = 0
                /\ tx_used' = 0
                /\ method' = "OPENING"
                /\ log' = log
                /\ IF WantsTransactions
                   THEN calls' = Append(calls, "Transaction") /\ pc' = "await_tx"
                   ELSE calls' = calls /\ pc' = "threshold"
    /\ UNCHANGED <<config, loop>>

\* line 214 raises; lines 224-225: a warning, and main() goes on
TransactionFail(err) ==
    /\ pc = "await_tx"
    /\ log' = Append(log, "tx_warning")
    /\ pc' = "threshold"
    /\ UNCHANGED <<calls, config, locals, loop>>

\* lines 215-216, 222-223: "transactions" is no list
TransactionNotList ==
    /\ pc = "await_tx"
    /\ log' = Append(log, "tx_no_list_warning")
    /\ pc' = "threshold"
    /\ UNCHANGED <<calls, config, locals, loop>>

\* lines 215-217, 163-165: calc_today_delta starts on the list
TransactionOk(txs) ==
    /\ pc = "await_tx"
    /\ transactions' = txs
    /\ i' = 0
    /\ delta' = 0
    /\ used' = 0
    /\ pc' = "tx_loop"
    /\ UNCHANGED <<calls, log, config, locals, signed>>

\* lines 167-172: one iteration
CalcStep ==
    /\ pc = "tx_loop"
    /\ i < Len(transactions)
    /\ LET tx == transactions[i + 1]
       IN  IF TxSkipped(norm(StrOf(wallet.WalletName)), norm(StrOrEmpty(tx.walletname)))
           THEN UNCHANGED <<delta, used, signed>>
           ELSE /\ signed' = transaction_signed_amount(tx)
                /\ delta' = delta + transaction_signed_amount(tx)
                /\ used' = used + 1
    /\ i' = i + 1
    /\ UNCHANGED <<pc, calls, log, config, locals, transactions>>

\* lines 174, 217-219
CalcReturn ==
    /\ pc = "tx_loop"
    /\ i = Len(transactions)
    /\ tx_delta' = delta
    /\ tx_used' = used
    /\ balance_for_alert' = opening_balance + delta
    /\ method' = "OPENING_PLUS_TX"
    /\ pc' = "threshold"
    /\ UNCHANGED <<calls, log, config, remains, uah_wallets, wallet,
                   opening_balance, loop>>

\* lines 239-258, 77
ThresholdCheck ==
    /\ pc = "threshold"
    /\ IF AlertFires(balance_for_alert)
       THEN /\ calls' = Append(calls, "sendMessage")
            /\ log' = log
            /\ pc' = "await_telegram"
       ELSE /\ calls' = calls
            /\ log' = Append(log, "balance_ok")
            /\ pc' = "done"
    /\ UNCHANGED <<config, locals, loop>>

\* lines 78-83: delivered, refused, or a network error; logged only
TelegramResponse(r) ==
    /\ pc = "await_telegram"
    /\ log' = Append(log, r)
    /\ pc' = "done"
    /\ UNCHANGED <<calls, config, locals, loop>>

Next ==
    \/ MainConfigError
    \/ MainSnapshotRequest
    \/ \E err \in FailKinds : WalletsRemainsFail(err)
    \/ \E rem \in RemainsLists : WalletsRemainsOk(rem)
    \/ \E err \in FailKinds : TransactionFail(err)
    \/ TransactionNotList
    \/ \E txs \in TxLists : TransactionOk(txs)
    \/ CalcStep
    \/ CalcReturn
    \/ ThresholdCheck
    \/ \E r \in {"tg_sent", "tg_api_error", "tg_network_error"} : TelegramResponse(r)

Spec == Init /\ [][Next]_vars
\* ------------------------------------------------------------ properties
Issued(a) == \E k \in 1..Len(calls) : calls[k] = a
Logged(m) == \E k \in 1..Len(log) : log[k] = m

\* the notifier was invoked in this run
Alerted == Issued("sendMessage")

\* select_wallet returned a wallet
WalletSelected == wallet # NoWallet

\* the run is over, or only the notifier's answer is outstanding
PastComparison == pc \in {"await_telegram", "done"}

\* the currency-matching wallets of the snapshot, by position
CurrencyMatching == { k \in 1..Len(remains) : IsUah(remains[k]) }

\* among them, those whose trimmed identifier is the configured one, trimmed
IdentifierMatching ==
    { k \in CurrencyMatching :
        strip(StrOf(remains[k].WalletCode)) = strip(WOG_WALLET_CODE) }

\* a matched transaction: equal normalized wallet names, or either is blank
Matched(tx) ==
    LET a == norm(StrOrEmpty(wallet.WalletName))
        b == norm(StrOrEmpty(tx.walletname))
    IN  a = <<>> \/ b = <<>> \/ a = b

\* the final amount is the not-ready sentinel and the raw amount is 0 or absent
Unresolved(tx) ==
    /\ tx.summwithdiscount = Num(-1)
    /\ tx.sum.k = "missing" \/ tx.sum = Num(0)

MatchedOf(n) == { k \in 1..n : Matched(transactions[k]) }
ClassifiedOf(n) == { k \in MatchedOf(n) : ~Unresolved(transactions[k]) }

RECURSIVE SumSigned(_)
SumSigned(K) ==
    IF K = {} THEN 0
    ELSE LET k == CHOOSE x \in K : TRUE
         IN  transaction_signed_amount(transactions[k]) + SumSigned(K \ {k})

\* the transaction feed was read as a list and aggregated
FeedAggregated == method = "OPENING_PLUS_TX"

\* a provider read failed: the snapshot read (error, or no usable remains)
\* or the transaction-feed read (error, or no list)
SnapshotReadFailed == pc = "done" /\ calls = <<"WalletsRemains">> /\ remains = <<>>
FeedReadFailed == Logged("tx_warning") \/ Logged("tx_no_list_warning")

\* C1: in OPENING_PLUS_TX mode a run with zero classified transactions
\* aborts: it produces no balance-for-check and never invokes the notifier.
\* Stated on the runs the claim singles out, those in which some transaction
\* was wallet-matched; a run with an empty feed has zero classified
\* transactions too.
C1_ZeroClassifiedAborts ==
    (WOG_BALANCE_MODE = "OPENING_PLUS_TX" /\ FeedAggregated
        /\ MatchedOf(Len(transactions)) # {}
        /\ ClassifiedOf(Len(transactions)) = {})
    => ~Alerted

\* C2: a run in which a provider read failed (network error, non-success
\* status, malformed body) never invokes the notifier.
C2_RemoteFailureNeverAlerts ==
    (SnapshotReadFailed \/ FeedReadFailed) => ~Alerted

\* C3: with no wallet identifier configured, a wallet is selected iff exactly
\* one wallet of the snapshot passes the currency filter, and it is that
\* wallet; with zero or several the run ends with an error and no alert.
C3_NoIdentifierNeedsExactlyOne ==
    (WOG_WALLET_CODE = <<>> /\ remains # <<>>) =>
        /\ WalletSelected <=> Cardinality(CurrencyMatching) = 1
        /\ WalletSelected =>
              /\ \A k \in CurrencyMatching : wallet = remains[k]
              /\ opening_balance = parse_decimal(wallet.Value)
        /\ ~WalletSelected =>
              /\ pc = "done"
              /\ calls = <<"WalletsRemains">>
              /\ log = <<"unexpected_error">>

C3_Witness ==
    /\ WOG_WALLET_CODE = <<>>
    /\ Cardinality(CurrencyMatching) = 2
    /\ pc = "done"
    /\ ~WalletSelected
    /\ ~Alerted

\* C4: with a wallet identifier configured, the selected wallet is the
\* unique currency-filtered wallet whose trimmed identifier equals the
\* trimmed configured one; if there is none, no wallet is selected and the
\* run ends with an error.
C4_IdentifierSelectsTheUniqueMatch ==
    (WOG_WALLET_CODE # <<>> /\ remains # <<>>) =>
        /\ WalletSelected =>
              /\ Cardinality(IdentifierMatching) = 1
              /\ \A k \in IdentifierMatching : wallet = remains[k]
        /\ IdentifierMatching = {} =>
              /\ ~WalletSelected
              /\ pc = "done"
              /\ log = <<"unexpected_error">>

\* C5: once the threshold comparison has run, the notifier was invoked iff
\* balance-for-check is strictly below the threshold; before it has run the
\* notifier was not invoked.
C5_AlertIffStrictlyBelow ==
    /\ (WalletSelected /\ PastComparison) =>
          (Alerted <=> balance_for_alert < BALANCE_THRESHOLD)
    /\ ~PastComparison => ~Alerted

C5_Witness ==
    /\ pc = "done"
    /\ WalletSelected
    /\ balance_for_alert = BALANCE_THRESHOLD
    /\ ~Alerted
    /\ Logged("balance_ok")

\* the words of the normalized direction hint
HintWords(tx) ==
    LET ws == split(DirectionValue(tx)) IN { ws[k] : k \in 1..Len(ws) }

StartsWith(w, stem) == Len(w) >= Len(stem) /\ SubSeq(w, 1, Len(stem)) = stem

\* an explicit credit-like token: "credit", "incoming", "plus", or a word of
\* the replenishment / crediting / refund / return stems
CreditWord(w) ==
    \/ w \in { <<"c","r","e","d","i","t">>, <<"i","n","c","o","m","i","n","g">>,
               <<"p","l","u","s">> }
    \/ \E stem \in { <<"cyr_p","cyr_o","cyr_p","cyr_o","cyr_v">>,
                     <<"cyr_z","cyr_a","cyr_r","cyr_a","cyr_kh">>,
                     <<"cyr_v","cyr_o","cyr_z","cyr_v","cyr_r","cyr_a","cyr_t">>,
                     <<"cyr_p","cyr_o","cyr_v","cyr_e","cyr_r","cyr_n","cyr_e","cyr_n">> } :
           StartsWith(w, stem)

\* an explicit debit-like token: "debit", "outgoing", "minus", or a word of
\* the write-off / purchase / payment stems
DebitWord(w) ==
    \/ w \in { <<"d","e","b","i","t">>, <<"o","u","t","g","o","i","n","g">>,
               <<"m","i","n","u","s">> }
    \/ \E stem \in { <<"cyr_s","cyr_p","cyr_i","cyr_s">>,
                     <<"cyr_p","cyr_o","cyr_k","cyr_u","cyr_p">>,
                     <<"cyr_o","cyr_p","cyr_l","cyr_a","cyr_t">> } :
           StartsWith(w, stem)

ExplicitCredit(tx) ==
    (\E w \in HintWords(tx) : CreditWord(w)) /\ (\A w \in HintWords(tx) : ~DebitWord(w))
ExplicitDebit(tx) ==
    (\E w \in HintWords(tx) : DebitWord(w)) /\ (\A w \in HintWords(tx) : ~CreditWord(w))

\* calc_today_delta has just classified record i
JustClassified == pc = "tx_loop" /\ i > 0 /\ Matched(transactions[i])

\* C6: a record with a positive resolved amount is classified positive when
\* its direction hint carries an explicit credit-like token and negative
\* when it carries an explicit debit-like token.
C6_ExplicitHintDecidesTheSign ==
    (JustClassified /\ ResolvedAmount(transactions[i]) > 0) =>
        /\ ExplicitCredit(transactions[i]) => signed > 0
        /\ ExplicitDebit(transactions[i]) => signed < 0

\* C7: a record whose final amount is the not-ready sentinel and whose raw
\* amount is zero or absent has no amount, and calc_today_delta does not
\* count it: after i records the count is the number of matched records
\* among them that are not of that kind.
C7_UnresolvedIsNotCounted ==
    pc = "tx_loop" => used = Cardinality(ClassifiedOf(i))

C10_MissingCredentialNoNetwork ==
    ~(WOG_API_KEY /\ TELEGRAM_BOT_TOKEN /\ TELEGRAM_CHAT_ID) =>
        /\ calls = <<>>
        /\ pc \in {"start", "done"}
        /\ pc = "done" => log = <<"config_error">>

C10_Witness ==
    /\ pc = "done"
    /\ WOG_API_KEY /\ TELEGRAM_BOT_TOKEN /\ ~TELEGRAM_CHAT_ID
    /\ calls = <<>>
====
